---- MODULE Spec2Model ----
(***************************************************************************)
(* Model of src/van_gogh_extractor.py: VanGoghExtractor reads a saved HTML *)
(* page, finds the inline script block that carries base64 JPEG data and   *)
(* correlates the extracted images and links, by position, with a         *)
(* hardcoded table of eight paintings.                                     *)
(*                                                                         *)
(* Python strings are TLA+ strings.  TLC evaluates Len, SubSeq and \o on   *)
(* strings, so every regular expression of the source is modelled by a     *)
(* scanner over the characters of the text, with re.findall's semantics:   *)
(* leftmost match, greedy quantifiers, non-overlapping matches.            *)
(***************************************************************************)
EXTENDS Integers, Sequences, FiniteSets, TLC

VARIABLES
    file,          \* the text of the file at html_file_path
    html_content,  \* self.html_content: None, or the text loaded by _load_html
    runs,          \* the lists returned by the calls of extract_artworks so far
    calls          \* the calls of _extract_from_script_content made by the latest
                   \* extract_artworks, each with its argument, locals and result

vars == <<file, html_content, runs, calls>>

----------------------------------------------------------------------------
(* Characters and character classes *)

Char(s, i) == SubSeq(s, i, i)

CharsOf(s) == {Char(s, i) : i \in 1..Len(s)}

UpperCase == "ABCDEFGHIJKLMNOPQRSTUVWXYZ"

LowerCase == "abcdefghijklmnopqrstuvwxyz"

DigitChars == "0123456789"

Quote == "\""

\* [A-Z]
UpperClass == CharsOf(UpperCase)

\* [A-Za-z0-9+/]
Base64Class == CharsOf(UpperCase) \cup CharsOf(LowerCase) \cup CharsOf(DigitChars) \cup {"+", "/"}

\* \d
DigitClass == CharsOf(DigitChars)

\* \w, over the characters the pages are written with
WordClass == CharsOf(UpperCase) \cup CharsOf(LowerCase) \cup CharsOf(DigitChars) \cup {"_", "é"}

\* \s
SpaceClass == {" ", "\t", "\n", "\r", "\f"}

----------------------------------------------------------------------------
(* Scanning primitives *)

\* The position of the first occurrence of pat in s at or after from (0: none).
Find(s, pat, from) ==
    LET m  == Len(pat)
        c  == Char(pat, 1)
        hi == Len(s) - m + 1
    IN  IF \E k \in from..hi : Char(s, k) = c /\ SubSeq(s, k, k + m - 1) = pat
        THEN CHOOSE k \in from..hi :
                 /\ Char(s, k) = c
                 /\ SubSeq(s, k, k + m - 1) = pat
                 /\ \A j \in from..(k - 1) :
                        Char(s, j) # c \/ SubSeq(s, j, j + m - 1) # pat
        ELSE 0

\* Python's `sub in s`.
Contains(s, sub) == Find(s, sub, 1) # 0

\* The position of the first character of class cls at or after from (0: none).
FindIn(s, cls, from) ==
    IF \E k \in from..Len(s) : Char(s, k) \in cls
    THEN CHOOSE k \in from..Len(s) :
             Char(s, k) \in cls /\ \A j \in from..(k - 1) : Char(s, j) \notin cls
    ELSE 0

\* The position of the first character outside cls at or after from (0: none).
FindNotIn(s, cls, from) ==
    IF \E k \in from..Len(s) : Char(s, k) \notin cls
    THEN CHOOSE k \in from..Len(s) :
             Char(s, k) \notin cls /\ \A j \in from..(k - 1) : Char(s, j) \in cls
    ELSE 0

\* The last position of the longest run of characters of cls that starts at i
\* (i - 1 when the run is empty): what a greedy [cls]* consumes.
RunEnd(s, i, cls) ==
    LET stop == FindNotIn(s, cls, i)
    IN  IF stop = 0 THEN Len(s) ELSE stop - 1

\* The same for a negated class: what a greedy [^excl]* consumes.
RunEndNot(s, i, excl) ==
    LET stop == FindIn(s, excl, i)
    IN  IF stop = 0 THEN Len(s) ELSE stop - 1

\* re.findall(pat, s) for a pattern without metacharacters: the
\* non-overlapping occurrences, left to right.
RECURSIVE FindAllFrom(_, _, _)
FindAllFrom(s, pat, from) ==
    LET i == Find(s, pat, from)
    IN  IF i = 0 THEN <<>>
        ELSE <<SubSeq(s, i, i + Len(pat) - 1)>> \o FindAllFrom(s, pat, i + Len(pat))

FindAll(s, pat) == FindAllFrom(s, pat, 1)

\* str.strip(ch): drop every leading and every trailing ch.
StripChar(s, ch) ==
    LET lo == FindNotIn(s, {ch}, 1)
    IN  IF lo = 0 THEN ""
        ELSE LET hi == CHOOSE k \in lo..Len(s) :
                           Char(s, k) # ch /\ \A j \in (k + 1)..Len(s) : Char(s, j) = ch
             IN  SubSeq(s, lo, hi)

\* str.lower(), character by character.
LowerChar(c) ==
    IF c \in UpperClass
    THEN Char(LowerCase, CHOOSE i \in 1..Len(UpperCase) : Char(UpperCase, i) = c)
    ELSE c

RECURSIVE LowerFrom(_, _)
LowerFrom(s, i) ==
    IF i > Len(s) THEN "" ELSE LowerChar(Char(s, i)) \o LowerFrom(s, i + 1)

Lower(s) == LowerFrom(s, 1)

\* str.replace(old, new) for a one-character old.
RECURSIVE ReplaceFrom(_, _, _, _)
ReplaceFrom(s, old, new, i) ==
    IF i > Len(s) THEN ""
    ELSE (IF Char(s, i) = old THEN new ELSE Char(s, i)) \o ReplaceFrom(s, old, new, i + 1)

Replace(s, old, new) == ReplaceFrom(s, old, new, 1)

----------------------------------------------------------------------------
(* Pattern library *)

ScriptOpen == "<script"

ScriptClose == "</script>"

Marker == "data:image/jpeg"

ImagePrefix == "data:image/jpeg;base64,"

LinkPrefix == "https://www.google.com/search?"

name_patterns == <<
    "\"The Starry Night\"",
    "\"Van Gogh self-portrait\"",
    "\"The Potato Eaters\"",
    "\"Wheatfield with Crows\"",
    "\"Café Terrace at Night\"",
    "\"Almond Blossoms\"",
    "\"Vase with Fifteen Sunflowers\"",
    "\"Self-Portrait\"" >>

keywords == <<"starry", "potato", "sunflower", "portrait", "terrace", "blossom", "wheatfield">>

QuotedMin == 10

QuotedMax == 50

known_paintings == <<
    <<"The Starry Night", "1889">>,
    <<"Van Gogh self-portrait", "1889">>,
    <<"The Potato Eaters", "1885">>,
    <<"Wheatfield with Crows", "1890">>,
    <<"Café Terrace at Night", "1888">>,
    <<"Almond Blossoms", "1890">>,
    <<"Vase with Fifteen Sunflowers", "1888">>,
    <<"Self-Portrait", "1889">> >>

_get_fallback_image ==
    "data:image/jpeg;base64,/9j/4AAQSkZJRgABAQAAAQABAAD/2wCEAAkGBxMTEhUTExQWFhUXGRsbGBgYGB8eGxgYGSAXGBsYGhgeHSggGhslHRoaITEiJSkrLi4uGx8zODMtNygtLisBCgoKDQwNGg8PGjclHyU3Nzc3Nzc3Nzc3Nzc3Nzc3Nzc3Nzc3Nzc3Nzc3Nzc3Nzc3Nzc3Nzc3Nzc3Nzc3Nzc3N//AABEIAMgA/AMBIgACEQEDEQH/xAAbAAACAwEBAQAAAAAAAAAAAAAEBQIDBgEAB//EAD4QAAECBAQEAwcDAgYCAgMAAAECEQADITEEEkFRBWFxgSKRoRMyQrHB0fAGUuFi8RQjcoKSshWiJDNDU4P/xAAaAQADAQEBAQAAAAAAAAAAAAABAgMABAUG/8QAKxEAAgICAgIBAwMEAwAAAAAAAAECEQMhEjEEQRMiUWFxgeEFMvDxFDOR/9oADAMBAAIRAxEAPwD5zg0qStw5O4KutGH0MFS050hOnIK15kjWB1zGJcaG2j033i/Bq8VFE/6Qq3cx6SikyDbNlw/BhOUgA5aeIVDCz72Nt2hhNwZuXD3rTodfWIYaYkgM+Wz6AaPuzN2gyZMBdVASzl6eG3SPI8yeaORcFobGotPkZXjfA5fsTkQE5HU4JzJqmm5SxNNIyilzAySCwDAsHIvUmN9xlvZLUFgUIIe42PlpGI9k9A3n949bBj5RTYnIZfp1ExRIOYpoGJdLchZwBDPH8LlqSpSUkKZqH3ahlDm/mH2jOcNxpl0FWIcOCCRqHtTb6Q4mcfmqoiUDuS1X0501pEpwm3Fw6D977M97QihB0eoPSrQ1whdKKqFgNQKvXUVZtooxWF8LrStBc+HJmT5vFvAUJMwEg6/C4Gz0p1NK6NHVFNdivZrcFhUozGhdmJubnp5xViuHJWA48QsoaMaE6vW7xecSksXBJZkitTcUqC/Tk4iudMYqC"

----------------------------------------------------------------------------
(* Field extractors *)

\* re.findall(r'<script[^>]*>(.*?)</script>', html, re.DOTALL): [^>]* stops
\* at the first '>', the lazy group at the first closing tag after it.
RECURSIVE ScriptsFrom(_, _)
ScriptsFrom(s, from) ==
    LET i == Find(s, ScriptOpen, from)
    IN  IF i = 0 THEN <<>>
        ELSE LET gt == FindIn(s, {">"}, i + Len(ScriptOpen))
                 k  == IF gt = 0 THEN 0 ELSE Find(s, ScriptClose, gt + 1)
             IN  IF k = 0 THEN ScriptsFrom(s, i + 1)
                 ELSE <<SubSeq(s, gt + 1, k - 1)>> \o ScriptsFrom(s, k + Len(ScriptClose))

script_matches(html) == ScriptsFrom(html, 1)

\* re.findall(r'data:image/jpeg;base64,([A-Za-z0-9+/]+=*)', s)
RECURSIVE ImagesFrom(_, _)
ImagesFrom(s, from) ==
    LET i == Find(s, ImagePrefix, from)
    IN  IF i = 0 THEN <<>>
        ELSE LET b == i + Len(ImagePrefix)
                 e == RunEnd(s, b, Base64Class)
                 p == RunEnd(s, e + 1, {"="})
             IN  IF e < b THEN ImagesFrom(s, i + 1)
                 ELSE <<SubSeq(s, b, p)>> \o ImagesFrom(s, p + 1)

base64_images(script_content) == ImagesFrom(script_content, 1)

\* \b(18\d{2}|19\d{2})\b matches at position i.
YearAt(s, i) ==
    /\ i + 3 <= Len(s)
    /\ SubSeq(s, i, i + 1) \in {"18", "19"}
    /\ Char(s, i + 2) \in DigitClass
    /\ Char(s, i + 3) \in DigitClass
    /\ (i = 1 \/ Char(s, i - 1) \notin WordClass)
    /\ (i + 3 = Len(s) \/ Char(s, i + 4) \notin WordClass)

\* re.findall(r'\b(18\d{2}|19\d{2})\b', s)
RECURSIVE YearsFrom(_, _)
YearsFrom(s, from) ==
    IF \E k \in from..Len(s) : YearAt(s, k)
    THEN LET i == CHOOSE k \in from..Len(s) :
                      YearAt(s, k) /\ \A j \in from..(k - 1) : ~YearAt(s, j)
         IN  <<SubSeq(s, i, i + 3)>> \o YearsFrom(s, i + 4)
    ELSE <<>>

years(script_content) == YearsFrom(script_content, 1)

\* re.findall(r'https://www\.google\.com/search\?[^"\s]+', s)
RECURSIVE LinksFrom(_, _)
LinksFrom(s, from) ==
    LET i == Find(s, LinkPrefix, from)
    IN  IF i = 0 THEN <<>>
        ELSE LET b == i + Len(LinkPrefix)
                 e == RunEndNot(s, b, {Quote} \cup SpaceClass)
             IN  IF e < b THEN LinksFrom(s, i + 1)
                 ELSE <<SubSeq(s, i, e)>> \o LinksFrom(s, e + 1)

google_links(script_content) == LinksFrom(script_content, 1)

\* re.findall(r'"([^"]{10,50})"', s): the run of non-quote characters after
\* an opening quote matches when it has 10 to 50 characters and a quote ends it.
RECURSIVE QuotedFrom(_, _)
QuotedFrom(s, from) ==
    LET i == Find(s, Quote, from)
    IN  IF i = 0 THEN <<>>
        ELSE LET e == RunEndNot(s, i + 1, {Quote})
                 n == e - i
             IN  IF n >= QuotedMin /\ n <= QuotedMax /\ e < Len(s)
                 THEN <<SubSeq(s, i + 1, e)>> \o QuotedFrom(s, e + 2)
                 ELSE QuotedFrom(s, i + 1)

quoted_strings(script_content) == QuotedFrom(script_content, 1)

InSeq(x, seq) == \E i \in 1..Len(seq) : seq[i] = x

\* The first loop of _extract_painting_names: for each pattern in turn,
\* every match with its quotes stripped.
RECURSIVE StripAll(_)
StripAll(matches) ==
    IF matches = <<>> THEN <<>>
    ELSE <<StripChar(Head(matches), Quote)>> \o StripAll(Tail(matches))

RECURSIVE LiteralNames(_, _)
LiteralNames(script_content, p) ==
    IF p > Len(name_patterns) THEN <<>>
    ELSE StripAll(FindAll(script_content, name_patterns[p]))
             \o LiteralNames(script_content, p + 1)

\* any(keyword in quoted.lower() for keyword in [...])
HasKeyword(quoted) ==
    LET lowered == Lower(quoted)
    IN  \E k \in 1..Len(keywords) : Contains(lowered, keywords[k])

\* The second loop: a quoted string with a keyword is appended unless the
\* list already holds it.
RECURSIVE KeywordNames(_, _)
KeywordNames(names, quoted) ==
    IF quoted = <<>> THEN names
    ELSE KeywordNames(
             IF HasKeyword(Head(quoted)) /\ ~InSeq(Head(quoted), names)
             THEN Append(names, Head(quoted))
             ELSE names,
             Tail(quoted))

_extract_painting_names(script_content) ==
    KeywordNames(LiteralNames(script_content, 1), quoted_strings(script_content))

----------------------------------------------------------------------------
(* Correlator *)

\* A link without the replacement of the spaces of the name.
FallbackLinkRaw(name) == "https://www.google.com/search?q=" \o name

\* f"https://www.google.com/search?q={name.replace(' ', '+')}"
FallbackLink(name) == "https://www.google.com/search?q=" \o Replace(name, " ", "+")

\* A record that takes its name and year from the extracted sequences.
ArtworkFromExtracted(i, images, names, yrs, links) ==
    [ name       |-> IF i <= Len(names) THEN names[i] ELSE known_paintings[i][1],
      extensions |-> <<IF i <= Len(yrs) THEN yrs[i] ELSE known_paintings[i][2]>>,
      link       |-> IF i <= Len(links) THEN links[i]
                     ELSE FallbackLink(known_paintings[i][1]),
      image      |-> IF i <= Len(images) THEN ImagePrefix \o images[i]
                     ELSE _get_fallback_image ]

\* A record whose image test is off by one: the last image is dropped.
ArtworkImageOffByOne(i, images, names, yrs, links) ==
    [ name       |-> known_paintings[i][1],
      extensions |-> <<known_paintings[i][2]>>,
      link       |-> IF i <= Len(links) THEN links[i]
                     ELSE FallbackLink(known_paintings[i][1]),
      image      |-> IF i < Len(images) THEN ImagePrefix \o images[i]
                     ELSE _get_fallback_image ]

\* A record that leaves the link out when none was extracted for it.
ArtworkSparse(i, images, names, yrs, links) ==
    IF i <= Len(links)
    THEN [ name       |-> known_paintings[i][1],
           extensions |-> <<known_paintings[i][2]>>,
           link       |-> links[i],
           image      |-> IF i <= Len(images) THEN ImagePrefix \o images[i]
                          ELSE _get_fallback_image ]
    ELSE [ name       |-> known_paintings[i][1],
           extensions |-> <<known_paintings[i][2]>>,
           image      |-> IF i <= Len(images) THEN ImagePrefix \o images[i]
                          ELSE _get_fallback_image ]

\* The dictionary built for known_paintings[i]; i counts from 1, so the
\* source's `i < len(links)` is i <= Len(links).
Artwork(i, images, names, yrs, links) ==
    [ name       |-> known_paintings[i][1],
      extensions |-> <<known_paintings[i][2]>>,
      link       |-> IF i <= Len(links) THEN links[i]
                     ELSE FallbackLink(known_paintings[i][1]),
      image      |-> IF i <= Len(images) THEN ImagePrefix \o images[i]
                     ELSE _get_fallback_image ]

\* One record per extracted image instead of one per known painting.
CorrelateZipped(images, names, yrs, links) ==
    LET n == IF Len(images) < Len(known_paintings) THEN Len(images)
             ELSE Len(known_paintings)
    IN  [i \in 1..n |-> Artwork(i, images, names, yrs, links)]

_correlate_data(images, names, yrs, links) ==
    [i \in 1..Len(known_paintings) |-> Artwork(i, images, names, yrs, links)]

\* An extraction that also wants a link before it correlates.
ExtractGatedOnLinks(script_content) ==
    LET images == base64_images(script_content)
        names  == _extract_painting_names(script_content)
        yrs    == years(script_content)
        links  == google_links(script_content)
    IN  IF images # <<>> /\ names # <<>> /\ links # <<>>
        THEN _correlate_data(images, names, yrs, links)
        ELSE <<>>

_extract_from_script_content(script_content) ==
    LET images == base64_images(script_content)
        names  == _extract_painting_names(script_content)
        yrs    == years(script_content)
        links  == google_links(script_content)
    IN  IF images # <<>> /\ names # <<>>
        THEN _correlate_data(images, names, yrs, links)
        ELSE <<>>

\* One call of _extract_from_script_content: its argument, the four
\* sequences it extracts and the list it returns.
Call(script_content) ==
    [ script_content |-> script_content,
      base64_images  |-> base64_images(script_content),
      painting_names |-> _extract_painting_names(script_content),
      years          |-> years(script_content),
      google_links   |-> google_links(script_content),
      artworks       |-> _extract_from_script_content(script_content) ]

\* A loop that ends at the first block with the marker, whatever it yields.
RECURSIVE ParseFirstMarkerOnly(_, _)
ParseFirstMarkerOnly(scripts, i) ==
    IF i > Len(scripts) THEN <<>>
    ELSE IF Contains(scripts[i], Marker)
         THEN <<Call(scripts[i])>>
         ELSE ParseFirstMarkerOnly(scripts, i + 1)

\* The loop of _parse_artworks from the i-th script block on, as the calls
\* it makes: a block with the marker is extracted, and the loop ends at the
\* first non-empty result.
RECURSIVE ParseFrom(_, _)
ParseFrom(scripts, i) ==
    IF i > Len(scripts) THEN <<>>
    ELSE IF Contains(scripts[i], Marker)
         THEN LET call == Call(scripts[i])
              IN  IF call.artworks # <<>> THEN <<call>>
                  ELSE <<call>> \o ParseFrom(scripts, i + 1)
         ELSE ParseFrom(scripts, i + 1)

\* A parse that scans the whole page instead of its script blocks.
ParseWholePage(html) ==
    LET call == Call(html)
    IN  [calls |-> <<call>>, artworks |-> call.artworks]

\* _parse_artworks: the calls made, and the list returned, which is the
\* last value assigned to artworks: the result of the last call, or [].
_parse_artworks(html) ==
    LET made == ParseFrom(script_matches(html), 1)
    IN  [ calls    |-> made,
          artworks |-> IF made = <<>> THEN <<>> ELSE made[Len(made)].artworks ]

----------------------------------------------------------------------------
(* The pages the extractor is run on *)

MaxBlocks == 2      \* pieces of a page of the block family

MaxCount == 9       \* images, links and years of a page of the count family

MaxNames == 2       \* quoted strings of a page of the name family

MaxRuns == 2        \* calls of extract_artworks

\* A two-digit decimal numeral.
Num(i) == Char(DigitChars, (i \div 10) + 1) \o Char(DigitChars, (i % 10) + 1)

\* The i-th image of a page: distinct payloads, every other one padded.
Payload(i) == "QUJD" \o Num(i) \o (IF i % 2 = 0 THEN "==" ELSE "")

RECURSIVE ImageList(_)
ImageList(n) ==
    IF n = 0 THEN ""
    ELSE ImageList(n - 1) \o (IF n > 1 THEN ", " ELSE "")
             \o Quote \o ImagePrefix \o Payload(n) \o Quote

LinkText(i) == LinkPrefix \o "q=" \o Num(i)

RECURSIVE LinkList(_)
LinkList(n) ==
    IF n = 0 THEN ""
    ELSE LinkList(n - 1) \o (IF n > 1 THEN ", " ELSE "") \o Quote \o LinkText(n) \o Quote

YearText(i) == "18" \o Num(50 + i)

RECURSIVE YearList(_)
YearList(n) ==
    IF n = 0 THEN ""
    ELSE YearList(n - 1) \o (IF n > 1 THEN ", " ELSE "") \o YearText(n)

RECURSIVE Joined(_)
Joined(parts) ==
    IF parts = <<>> THEN ""
    ELSE Head(parts) \o (IF Len(parts) > 1 THEN ", " ELSE "") \o Joined(Tail(parts))

RECURSIVE Concat(_)
Concat(parts) == IF parts = <<>> THEN "" ELSE Head(parts) \o Concat(Tail(parts))

SeqsUpTo(S, n) == UNION {[1..k -> S] : k \in 0..n}

InScript(body) == "<script>" \o body \o "</script>"

\* Block family: up to MaxBlocks pieces, each a script block, text outside
\* any script, an opening tag that is never closed or text up to a stray
\* closing tag.
NameOnly == "var title = \"The Starry Night\";"

MarkerOnly == "var kind = \"data:image/jpeg\"; var title = \"The Starry Night\";"

ImageOnly == "var img = \"data:image/jpeg;base64,QUJDRA==\";"

ImageAndName == "var img = \"data:image/jpeg;base64,QUJDRA==\"; var title = \"The Potato Eaters\";"

FullRecord == "var a = {t: \"Almond Blossoms\", y: 1890, u: \"https://www.google.com/search?q=Almond\", i: \"data:image/jpeg;base64,/9j/4AAQ\"};"

Pieces == {
    InScript(NameOnly),
    InScript(MarkerOnly),
    InScript(ImageOnly),
    InScript(ImageAndName),
    "<script type=\"text/javascript\">" \o FullRecord \o "</script>",
    "<p>" \o ImageAndName \o "</p>",
    FullRecord \o "</script>",
    "<script>" }

BlockPages == {Concat(p) : p \in SeqsUpTo(Pieces, MaxBlocks)}

\* Count family: one script block with a painting name, a images, c years
\* and d links.
YearCounts == {0, 1, Len(known_paintings), MaxCount}

CountBody(a, c, d) ==
    "var imgs = [" \o ImageList(a) \o "]; var names = [\"Self-Portrait\"]; var years = ["
        \o YearList(c) \o "]; var links = [" \o LinkList(d) \o "];"

CountPages ==
    {InScript(CountBody(a, c, d)) : a \in 0..MaxCount, c \in YearCounts, d \in 0..MaxCount}

\* Name family: one script block with at most one image and up to MaxNames
\* quoted strings.
QuotedTexts == {
    "\"The Starry Night\"",
    "\"Self-Portrait\"",
    "\"Van Gogh self-portrait\"",
    "\"Sunflowers in a vase\"",
    "\"STARRY sky\"",
    "\"Starry\"",
    "\"plain text here\"" }

NamePages ==
    {InScript("var imgs = [" \o ImageList(a) \o "]; var names = [" \o Joined(q) \o "];") :
        a \in 0..1, q \in SeqsUpTo(QuotedTexts, MaxNames)}

Pages == BlockPages \cup CountPages \cup NamePages

----------------------------------------------------------------------------
(* The extractor *)

None == <<>>

\* A load that adds the text read to what an earlier call loaded.
LoadHtmlAppended(self_html_content, text) ==
    IF self_html_content = None THEN <<text>> ELSE <<self_html_content[1] \o text>>

\* _load_html: the text read from the file replaces self.html_content.
_load_html(self_html_content, text) == <<text>>

Init ==
    /\ file \in Pages
    /\ html_content = None
    /\ runs = <<>>
    /\ calls = <<>>

\* VanGoghExtractor(html_file_path): a fresh extractor for the same file.
__init__ ==
    /\ html_content # None
    /\ html_content' = None
    /\ UNCHANGED <<file, runs, calls>>

\* extract_artworks: load the file, parse what was loaded.
extract_artworks ==
    /\ Len(runs) < MaxRuns
    /\ html_content' = _load_html(html_content, file)
    /\ LET parsed == _parse_artworks(html_content'[1])
       IN  /\ runs' = Append(runs, parsed.artworks)
           /\ calls' = parsed.calls
    /\ UNCHANGED file

Next == __init__ \/ extract_artworks

Spec == Init /\ [][Next]_vars


----------------------------------------------------------------------------
(* Properties *)

Last(seq) == seq[Len(seq)]

\* The script blocks of the file, in document order.
Blocks == script_matches(file)

HasMarker(s) == Contains(s, Marker)

\* The blocks that carry the marker data:image/jpeg.
MarkerBlocks == SelectSeq(Blocks, HasMarker)

\* The block has at least one base64 image and at least one name.
Yields(s) == base64_images(s) # <<>> /\ _extract_painting_names(s) # <<>>

\* The marker blocks with at least one image and one name.
YieldingBlocks == SelectSeq(MarkerBlocks, Yields)

\* C1 as stated: every result of extract_artworks is what the first block
\* with the marker yields alone, the empty list when that block has no
\* image or no name.
C1_FirstMarkerBlockOnly ==
    LET marked == MarkerBlocks
    IN  \A r \in 1..Len(runs) :
            runs[r] = IF marked = <<>> THEN <<>>
                      ELSE _extract_from_script_content(marked[1])

\* C1 amended: every result of extract_artworks is what the first marker
\* block with at least one image and one name yields alone; marker blocks
\* before it are skipped, blocks after it never count, and the result is
\* empty only when no marker block has both an image and a name.
C1_FirstYieldingBlockOnly ==
    LET yielding == YieldingBlocks
    IN  \A r \in 1..Len(runs) :
            runs[r] = IF yielding = <<>> THEN <<>>
                      ELSE _extract_from_script_content(yielding[1])

\* A run over a page whose first marker block has no image or no name and
\* whose later marker block has both.
C1_Witness ==
    /\ runs # <<>>
    /\ Len(MarkerBlocks) >= 2
    /\ ~Yields(MarkerBlocks[1])
    /\ Yields(MarkerBlocks[2])
    /\ Last(runs) = _extract_from_script_content(MarkerBlocks[2])
    /\ Last(runs) # <<>>

\* C2: when no script block of the page contains the marker (a page without
\* script blocks included), every result of extract_artworks is empty.
C2_NoMarkerNoArtworks ==
    (\A b \in 1..Len(Blocks) : ~Contains(Blocks[b], Marker))
        => \A r \in 1..Len(runs) : runs[r] = <<>>

\* A run over a page without any script block that has an image and a name
\* outside of scripts.
C2_Witness ==
    /\ runs # <<>>
    /\ Blocks = <<>>
    /\ Contains(file, Marker)
    /\ Yields(file)
    /\ Last(runs) = <<>>

\* C3: after a run over a page with marker blocks, the first call of
\* _extract_from_script_content was on the first of them, and when it
\* extracted at least one image and one name the result has exactly 8
\* records, whatever the numbers of images, names, years and links.
C3_EightRecords ==
    LET marked == MarkerBlocks
    IN  (runs # <<>> /\ marked # <<>>) =>
            /\ calls # <<>>
            /\ calls[1].script_content = marked[1]
            /\ (calls[1].base64_images # <<>> /\ calls[1].painting_names # <<>>)
                   => Len(Last(runs)) = 8

\* A run over a block with one image, one name, no year and more than 8
\* links.
C3_Witness ==
    /\ runs # <<>>
    /\ calls # <<>>
    /\ Len(calls[1].base64_images) = 1
    /\ Len(calls[1].painting_names) = 1
    /\ calls[1].years = <<>>
    /\ Len(calls[1].google_links) > 8
    /\ Len(Last(runs)) = 8

\* C4: in every non-empty result the record at each of the 8 positions has
\* the name of the reference entry at that position and, as its only
\* extension, that entry's year; so the names and years found in the page
\* never show in these two fields.
C4_NameAndYearFromReference ==
    \A r \in 1..Len(runs) :
        runs[r] # <<>> =>
            /\ Len(runs[r]) = 8
            /\ \A i \in 1..8 :
                   /\ runs[r][i].name = known_paintings[i][1]
                   /\ runs[r][i].extensions = <<known_paintings[i][2]>>

\* A non-empty result for a block whose first extracted name and first
\* extracted year both differ from the first reference entry.
C4_Witness ==
    /\ runs # <<>>
    /\ Last(runs) # <<>>
    /\ Last(calls).painting_names[1] = "Self-Portrait"
    /\ Last(calls).years # <<>>
    /\ Last(calls).years[1] = "1851"
    /\ Last(runs)[1].name = "The Starry Night"
    /\ Last(runs)[1].extensions = <<"1889">>

\* C5: in every non-empty result the image of the record at position i is
\* data:image/jpeg;base64, followed by the i-th payload extracted from the
\* block the result comes from when there are that many payloads, and the
\* fallback image otherwise.
C5_ImageByPosition ==
    (runs # <<>> /\ Last(runs) # <<>>) =>
        /\ calls # <<>>
        /\ Last(calls).artworks = Last(runs)
        /\ Len(Last(runs)) = 8
        /\ LET images == Last(calls).base64_images
           IN  \A i \in 1..8 :
                   Last(runs)[i].image =
                       IF i <= Len(images)
                       THEN "data:image/jpeg;base64," \o images[i]
                       ELSE _get_fallback_image

\* A result for a block with two images: the two payloads in the order of
\* the page, then the fallback image.
C5_Witness ==
    /\ runs # <<>>
    /\ Last(runs) # <<>>
    /\ Last(calls).base64_images = <<"QUJD01", "QUJD02==">>
    /\ Last(runs)[1].image = "data:image/jpeg;base64,QUJD01"
    /\ Last(runs)[2].image = "data:image/jpeg;base64,QUJD02=="
    /\ Last(runs)[3].image = _get_fallback_image
    /\ Last(runs)[8].image = _get_fallback_image

\* The search links of the 8 reference names, spaces replaced by +.
ExpectedFallbackLinks == <<
    "https://www.google.com/search?q=The+Starry+Night",
    "https://www.google.com/search?q=Van+Gogh+self-portrait",
    "https://www.google.com/search?q=The+Potato+Eaters",
    "https://www.google.com/search?q=Wheatfield+with+Crows",
    "https://www.google.com/search?q=Café+Terrace+at+Night",
    "https://www.google.com/search?q=Almond+Blossoms",
    "https://www.google.com/search?q=Vase+with+Fifteen+Sunflowers",
    "https://www.google.com/search?q=Self-Portrait" >>

\* C6: in every non-empty result the link of the record at position i is
\* the i-th Google search link extracted from the block the result comes
\* from when there are that many links, and otherwise the search link of the
\* i-th reference name with every space replaced by +.
C6_LinkByPosition ==
    (runs # <<>> /\ Last(runs) # <<>>) =>
        /\ calls # <<>>
        /\ Last(calls).artworks = Last(runs)
        /\ Len(Last(runs)) = 8
        /\ LET links == Last(calls).google_links
           IN  \A i \in 1..8 :
                   Last(runs)[i].link =
                       IF i <= Len(links) THEN links[i]
                       ELSE ExpectedFallbackLinks[i]

\* A result for a block with one link: that link, then synthesized links.
C6_Witness ==
    /\ runs # <<>>
    /\ Last(runs) # <<>>
    /\ Last(calls).google_links = <<"https://www.google.com/search?q=01">>
    /\ Last(runs)[1].link = "https://www.google.com/search?q=01"
    /\ Last(runs)[2].link = "https://www.google.com/search?q=Van+Gogh+self-portrait"
    /\ Last(runs)[5].link = "https://www.google.com/search?q=Café+Terrace+at+Night"

\* C7: every result of extract_artworks is the empty list or a list of
\* exactly 8 records, each with the four fields name, extensions (of one
\* element), link and image.
C7_EmptyOrEightRecords ==
    \A r \in 1..Len(runs) :
        \/ runs[r] = <<>>
        \/ /\ Len(runs[r]) = 8
           /\ \A i \in 1..8 :
                  /\ DOMAIN runs[r][i] = {"name", "extensions", "link", "image"}
                  /\ Len(runs[r][i].extensions) = 1

\* A result of 8 full records for a block with fewer than 8 images and no
\* link at all.
C7_Witness ==
    /\ runs # <<>>
    /\ Len(Last(runs)) = 8
    /\ Len(Last(calls).base64_images) < 8
    /\ Last(calls).google_links = <<>>
    /\ DOMAIN Last(runs)[8] = {"name", "extensions", "link", "image"}

\* C8: every call of _extract_from_script_content returns a non-empty list
\* exactly when it extracted at least one image and at least one name; the
\* years and links it extracted play no part.
C8_GateOnImagesAndNames ==
    \A c \in 1..Len(calls) :
        (calls[c].artworks # <<>>)
            <=> (calls[c].base64_images # <<>> /\ calls[c].painting_names # <<>>)

\* A call that extracted an image and a name and neither year nor link, and
\* returned records.
C8_Witness ==
    \E c \in 1..Len(calls) :
        /\ calls[c].base64_images # <<>>
        /\ calls[c].painting_names # <<>>
        /\ calls[c].years = <<>>
        /\ calls[c].google_links = <<>>
        /\ calls[c].artworks # <<>>

\* C9: all the calls of extract_artworks on the unchanged file return the
\* same list, on a fresh extractor or on one that has loaded the file before.
C9_Idempotent ==
    \A q, r \in 1..Len(runs) : runs[q] = runs[r]

\* Two runs with records, the extractor still holding the loaded text.
C9_Witness ==
    /\ Len(runs) >= 2
    /\ html_content # None
    /\ runs[1] # <<>>
    /\ runs[2] = runs[1]

\* The 8 literal painting names of the first pass.
LiteralNameSet == {StripChar(name_patterns[p], Quote) : p \in 1..Len(name_patterns)}

\* C10: in every call of _extract_from_script_content, no string occurs
\* twice in the list returned by _extract_painting_names, and the names of
\* the literal pass all come before the names of the keyword pass.
C10_NamesDeduplicated ==
    \A c \in 1..Len(calls) :
        LET names == calls[c].painting_names
        IN  /\ \A i, j \in 1..Len(names) : i # j => names[i] # names[j]
            /\ \A i, j \in 1..Len(names) :
                   (i < j /\ names[i] \notin LiteralNameSet) => names[j] \notin LiteralNameSet

====
